---- MODULE Spec2Model ----
(***************************************************************************)
(* Message fragments of a chat message (chat.fragments.ts): fragments wrap *)
(* parts, parts wrap data references.  JavaScript objects live in a heap   *)
(* of cells, so that object identity (aliasing) and own-key presence (a    *)
(* key holding undefined against a key that is absent) are both visible.   *)
(***************************************************************************)
EXTENDS Integers, Sequences, FiniteSets, TLC

\* Bounds of the model.
MaxOps == 3      \* calls made by the client

(***************************************************************************)
(* JavaScript values.  Every value is a record of the same shape: its      *)
(* typeof tag, its text as a sequence of words (strings), its number       *)
(* (numbers, booleans) or its heap address (objects).                      *)
(***************************************************************************)
Undefined == [t |-> "undefined", s |-> <<>>, n |-> 0]
Null == [t |-> "null", s |-> <<>>, n |-> 0]
Str(words) == [t |-> "string", s |-> words, n |-> 0]
Num(k) == [t |-> "number", s |-> <<>>, n |-> k]
Bool(b) == [t |-> "boolean", s |-> <<>>, n |-> IF b THEN 1 ELSE 0]
Ref(a) == [t |-> "object", s |-> <<>>, n |-> a]

\* JavaScript truthiness, as read by the conditional of line 330.
Truthy(v) ==
  CASE v.t = "undefined" -> FALSE
    [] v.t = "null" -> FALSE
    [] v.t = "string" -> v.s # <<>>
    [] v.t = "number" -> v.n # 0
    [] v.t = "boolean" -> v.n = 1
    [] OTHER -> TRUE

(***************************************************************************)
(* The heap: a sequence of cells, a cell's address being its index.  An    *)
(* object cell holds its own keys (a record); an array cell its items.     *)
(* The store st threads the heap, the identifier generator's counter and   *)
(* the clock through a call; every operation returns [st, r]: the store    *)
(* after it and its result.                                                *)
(***************************************************************************)
NoFields == [k \in {} |-> Undefined]
Obj(fields) == [kind |-> "object", fields |-> fields, items |-> <<>>]
Arr(items) == [kind |-> "array", fields |-> NoFields, items |-> items]

Alloc(st, cell) ==
  [st |-> [st EXCEPT !.heap = Append(st.heap, cell)], r |-> Ref(Len(st.heap) + 1)]

\* obj.key: an absent key reads as undefined.
Get(h, v, key) ==
  IF key \in DOMAIN h[v.n].fields THEN h[v.n].fields[key] ELSE Undefined

HasKey(h, v, key) == key \in DOMAIN h[v.n].fields

\* agiId('chat-dfragment'): a token the generator has not returned before.
agiId(st) ==
  [st |-> [st EXCEPT !.nextId = st.nextId + 1], r |-> Str(<<"id" \o ToString(st.nextId)>>)]

\* A one-word string: tags and short texts.
S(w) == Str(<<w>>)

(***************************************************************************)
(* Helpers - Fragment Type Guards                                          *)
(***************************************************************************)
isContentFragment(h, fragment) == Get(h, fragment, "ft") = S("content")

isAttachmentFragment(h, fragment) == Get(h, fragment, "ft") = S("attachment")

isDocPart(h, part) == Get(h, part, "pt") = S("doc")

isImageRefPart(h, part) == Get(h, part, "pt") = S("image_ref")

isTextPart(h, part) == Get(h, part, "pt") = S("text")

(***************************************************************************)
(* Helpers - Parts Creation.  An object literal sets every key it names,   *)
(* an omitted optional argument leaving the key present, holding undefined.*)
(***************************************************************************)
createDMessageDocPart(st, type, data, ref, meta) ==
  Alloc(st, Obj([pt |-> S("doc"), type |-> type, data |-> data, ref |-> ref, meta |-> meta]))

createDMessageErrorPart(st, error) ==
  Alloc(st, Obj([pt |-> S("error"), error |-> error]))

createDMessageImageRefPart(st, dataRef, altText, width, height) ==
  Alloc(st, Obj([pt |-> S("image_ref"), dataRef |-> dataRef, altText |-> altText,
                 width |-> width, height |-> height]))

createDMessageTextPart(st, text) ==
  Alloc(st, Obj([pt |-> S("text"), text |-> text]))

createDMessageFunctionCallInvocationPart(st, id, name, args, description, args_schema) ==
  LET c == Alloc(st, Obj(("type" :> S("function_call")) @@ ("name" :> name) @@ ("args" :> args)
                         @@ ("_description" :> description) @@ ("_args_schema" :> args_schema)))
  IN Alloc(c.st, Obj([pt |-> S("tool_call"), id |-> id, call |-> c.r]))

createDMessageCodeExecutionInvocationPart(st, id, code, language, variant) ==
  LET a == Alloc(st, Obj([code |-> code, language |-> language]))
      c == Alloc(a.st, Obj([type |-> S("code_execution"), variant |-> variant, arguments |-> a.r]))
  IN Alloc(c.st, Obj([pt |-> S("tool_call"), id |-> id, call |-> c.r]))

createDMessageFunctionCallResponsePart(st, id, result, name, error, environment) ==
  LET r == Alloc(st, Obj(("type" :> S("function_call")) @@ ("result" :> result) @@ ("_name" :> name)))
  IN Alloc(r.st, Obj(("pt" :> S("tool_response")) @@ ("id" :> id) @@ ("response" :> r.r)
                     @@ ("error" :> error) @@ ("_environment" :> environment)))

createDMessageCodeExecutionResponsePart(st, id, result, variant, error, environment) ==
  LET r == Alloc(st, Obj(("type" :> S("code_execution")) @@ ("result" :> result) @@ ("_variant" :> variant)))
  IN Alloc(r.st, Obj(("pt" :> S("tool_response")) @@ ("id" :> id) @@ ("response" :> r.r)
                     @@ ("error" :> error) @@ ("_environment" :> environment)))

createDMetaPlaceholderPart(st, placeholderText) ==
  Alloc(st, Obj([pt |-> S("ph"), pText |-> placeholderText]))

createDMetaSentinelPart(st) ==
  Alloc(st, Obj([pt |-> S("_pt_sentinel")]))

(***************************************************************************)
(* Helpers - Data Reference Creation                                       *)
(***************************************************************************)
createDMessageDataInlineText(st, text, mimeType) ==
  Alloc(st, Obj([idt |-> S("text"), text |-> text, mimeType |-> mimeType]))

createDMessageDataRefUrl(st, url) ==
  Alloc(st, Obj([reftype |-> S("url"), url |-> url]))

createDMessageDataRefDBlob(st, dblobAssetId, mimeType, bytesSize) ==
  Alloc(st, Obj([reftype |-> S("dblob"), dblobAssetId |-> dblobAssetId,
                 mimeType |-> mimeType, bytesSize |-> bytesSize]))

(***************************************************************************)
(* Helpers - Fragments Creation                                            *)
(***************************************************************************)
_createContentFragment(st, part) ==
  LET id == agiId(st)
  IN Alloc(id.st, Obj([ft |-> S("content"), fId |-> id.r, part |-> part]))

createErrorContentFragment(st, error) ==
  LET p == createDMessageErrorPart(st, error) IN _createContentFragment(p.st, p.r)

createImageContentFragment(st, dataRef, altText, width, height) ==
  LET p == createDMessageImageRefPart(st, dataRef, altText, width, height)
  IN _createContentFragment(p.st, p.r)

createPlaceholderMetaFragment(st, placeholderText) ==
  LET p == createDMetaPlaceholderPart(st, placeholderText) IN _createContentFragment(p.st, p.r)

createTextContentFragment(st, text) ==
  LET p == createDMessageTextPart(st, text) IN _createContentFragment(p.st, p.r)

\* { ...copyFragment, part: createDMessageTextPart(text) }
specialShallowReplaceTextContentFragment(st, copyFragment, text) ==
  LET f == st.heap[copyFragment.n].fields
      p == createDMessageTextPart(st, text)
  IN Alloc(p.st, Obj([k \in DOMAIN f \cup {"part"} |-> IF k = "part" THEN p.r ELSE f[k]]))

\* Date.now() reads the store's clock.
_createAttachmentFragment(st, title, caption, part) ==
  LET id == agiId(st)
  IN Alloc(id.st, Obj([ft |-> S("attachment"), fId |-> id.r, title |-> title,
                       caption |-> caption, created |-> Num(st.now), part |-> part]))

createDocAttachmentFragment(st, title, caption, type, data, ref, meta) ==
  LET p == createDMessageDocPart(st, type, data, ref, meta)
  IN _createAttachmentFragment(p.st, title, caption, p.r)

createImageAttachmentFragment(st, title, caption, dataRef, imgAltText, width, height) ==
  LET p == createDMessageImageRefPart(st, dataRef, imgAltText, width, height)
  IN _createAttachmentFragment(p.st, title, caption, p.r)

_createSentinelFragment(st) ==
  LET id == agiId(st) IN Alloc(id.st, Obj([ft |-> S("_ft_sentinel"), fId |-> id.r]))

(***************************************************************************)
(* Helpers - Duplication                                                   *)
(***************************************************************************)
\* Faulty variant: the reference itself is returned, not a copy of it.
_duplicateDataReference_shares(st, ref) == [st |-> st, r |-> ref]

\* A switch no case of which matches returns undefined.
_duplicateDataReference(st, ref) ==
  LET h == st.heap
      reftype == Get(h, ref, "reftype")
  IN CASE reftype = S("url") -> createDMessageDataRefUrl(st, Get(h, ref, "url"))
       [] reftype = S("dblob") ->
            createDMessageDataRefDBlob(st, Get(h, ref, "dblobAssetId"), Get(h, ref, "mimeType"),
                                       Get(h, ref, "bytesSize"))
       [] OTHER -> [st |-> st, r |-> Undefined]

\* Faulty variant: the inline data's mimeType is not passed on.
_duplicateInlineData_dropsMimeType(st, data) ==
  createDMessageDataInlineText(st, Get(st.heap, data, "text"), Undefined)

_duplicateInlineData(st, data) ==
  LET h == st.heap
  IN IF Get(h, data, "idt") = S("text")
     THEN createDMessageDataInlineText(st, Get(h, data, "text"), Get(h, data, "mimeType"))
     ELSE [st |-> st, r |-> Undefined]

\* { ...obj }: a new object with obj's own keys and the same values.
Spread(st, obj) == Alloc(st, Obj(st.heap[obj.n].fields))

_duplicatePart(st, part) ==
  LET h == st.heap
      pt == Get(h, part, "pt")
      call == Get(h, part, "call")
      response == Get(h, part, "response")
  IN CASE pt = S("doc") ->
            LET d == _duplicateInlineData(st, Get(h, part, "data"))
            IN createDMessageDocPart(d.st, Get(h, part, "type"), d.r, Get(h, part, "ref"),
                                     Get(h, part, "meta"))
       [] pt = S("error") -> createDMessageErrorPart(st, Get(h, part, "error"))
       [] pt = S("image_ref") ->
            LET d == _duplicateDataReference(st, Get(h, part, "dataRef"))
            IN createDMessageImageRefPart(d.st, d.r, Get(h, part, "altText"),
                                          Get(h, part, "width"), Get(h, part, "height"))
       [] pt = S("ph") -> createDMetaPlaceholderPart(st, Get(h, part, "pText"))
       [] pt = S("text") -> createDMessageTextPart(st, Get(h, part, "text"))
       [] pt = S("tool_call") ->
            IF Get(h, call, "type") = S("function_call")
            THEN LET schema == Get(h, call, "_args_schema")
                     c == IF Truthy(schema) THEN Spread(st, schema) ELSE [st |-> st, r |-> Undefined]
                 IN createDMessageFunctionCallInvocationPart(c.st, Get(h, part, "id"),
                      Get(h, call, "name"), Get(h, call, "args"), Get(h, call, "_description"), c.r)
            ELSE createDMessageCodeExecutionInvocationPart(st, Get(h, part, "id"),
                   Get(h, Get(h, call, "arguments"), "code"),
                   Get(h, Get(h, call, "arguments"), "language"), Get(h, call, "variant"))
       [] pt = S("tool_response") ->
            IF Get(h, response, "type") = S("function_call")
            THEN createDMessageFunctionCallResponsePart(st, Get(h, part, "id"),
                   Get(h, response, "result"), Get(h, response, "_name"), Get(h, part, "error"),
                   Get(h, part, "_environment"))
            ELSE createDMessageCodeExecutionResponsePart(st, Get(h, part, "id"),
                   Get(h, response, "result"), Get(h, response, "_variant"), Get(h, part, "error"),
                   Get(h, part, "_environment"))
       [] pt = S("_pt_sentinel") -> createDMetaSentinelPart(st)
       [] OTHER -> [st |-> st, r |-> Undefined]

\* Faulty variant: { ...fragment, part: _duplicatePart(fragment.part) },
\* which keeps the source's fId.
_duplicateFragment_reusesFId(st, fragment) ==
  LET f == st.heap[fragment.n].fields
  IN IF "part" \in DOMAIN f
     THEN LET p == _duplicatePart(st, f["part"])
          IN Alloc(p.st, Obj([k \in DOMAIN f |-> IF k = "part" THEN p.r ELSE f[k]]))
     ELSE Alloc(st, Obj(f))

\* Faulty variant: an attachment is rebuilt with the content factory.
_duplicateFragment_attachmentAsContent(st, fragment) ==
  LET h == st.heap
  IN IF Get(h, fragment, "ft") = S("_ft_sentinel") THEN _createSentinelFragment(st)
     ELSE LET p == _duplicatePart(st, Get(h, fragment, "part"))
          IN _createContentFragment(p.st, p.r)

\* Faulty variant: an attachment's duplicate keeps the source's created.
_duplicateFragment_keepsCreated(st, fragment) ==
  LET h == st.heap
      ft == Get(h, fragment, "ft")
  IN CASE ft = S("content") ->
            LET p == _duplicatePart(st, Get(h, fragment, "part"))
            IN _createContentFragment(p.st, p.r)
       [] ft = S("attachment") ->
            LET p == _duplicatePart(st, Get(h, fragment, "part"))
                id == agiId(p.st)
            IN Alloc(id.st, Obj([ft |-> S("attachment"), fId |-> id.r,
                                 title |-> Get(h, fragment, "title"),
                                 caption |-> Get(h, fragment, "caption"),
                                 created |-> Get(h, fragment, "created"), part |-> p.r]))
       [] OTHER -> _createSentinelFragment(st)

_duplicateFragment(st, fragment) ==
  LET h == st.heap
      ft == Get(h, fragment, "ft")
  IN CASE ft = S("content") ->
            LET p == _duplicatePart(st, Get(h, fragment, "part"))
            IN _createContentFragment(p.st, p.r)
       [] ft = S("attachment") ->
            LET p == _duplicatePart(st, Get(h, fragment, "part"))
            IN _createAttachmentFragment(p.st, Get(h, fragment, "title"),
                                         Get(h, fragment, "caption"), p.r)
       [] ft = S("_ft_sentinel") -> _createSentinelFragment(st)
       [] OTHER -> [st |-> st, r |-> Undefined]

\* Array.prototype.map: the callback on each item in index order, the
\* results in a new array.  Here r is the sequence of results so far.
RECURSIVE MapFragments(_, _, _)
MapFragments(st, items, acc) ==
  IF items = <<>> THEN [st |-> st, r |-> acc]
  ELSE LET d == _duplicateFragment(st, Head(items))
       IN MapFragments(d.st, Tail(items), Append(acc, d.r))

\* Faulty variant: the copies are returned in reverse order.
duplicateDMessageFragments_reversed(st, fragments) ==
  LET m == MapFragments(st, st.heap[fragments.n].items, <<>>)
  IN Alloc(m.st, Arr([i \in 1..Len(m.r) |-> m.r[Len(m.r) + 1 - i]]))

\* Faulty variant: the copies are written into the array passed, which is
\* returned.
duplicateDMessageFragments_inPlace(st, fragments) ==
  LET m == MapFragments(st, st.heap[fragments.n].items, <<>>)
  IN [st |-> [m.st EXCEPT !.heap[fragments.n].items = m.r], r |-> fragments]

duplicateDMessageFragments(st, fragments) ==
  LET m == MapFragments(st, st.heap[fragments.n].items, <<>>)
  IN Alloc(m.st, Arr(m.r))

(***************************************************************************)
(* Content part to attachment fragment.  The template literal of the       *)
(* fallback is the words around the part's pt tag.                         *)
(***************************************************************************)
\* Faulty variant: the text does not name the part's kind.
NotSupportedText_noTag(pt) == Str(<<"Conversion", "is", "not", "supported", "yet.">>)

NotSupportedText(pt) ==
  Str(<<"Conversion", "of", "'">> \o pt.s \o <<"'", "is", "not", "supported", "yet.">>)

\* Faulty variant: a sentinel part, legal in an attachment, is attached as
\* it is.
specialContentPartToDocAttachmentFragment_passesSentinel(st, title, caption, contentPart, ref, docMeta) ==
  LET h == st.heap
  IN IF isTextPart(h, contentPart)
     THEN LET d == createDMessageDataInlineText(st, Get(h, contentPart, "text"), S("text/plain"))
          IN createDocAttachmentFragment(d.st, title, caption, S("text/plain"), d.r, ref, docMeta)
     ELSE IF isImageRefPart(h, contentPart)
     THEN LET d == _duplicateDataReference(st, Get(h, contentPart, "dataRef"))
          IN createImageAttachmentFragment(d.st, title, caption, d.r, Get(h, contentPart, "altText"),
               Get(h, contentPart, "width"), Get(h, contentPart, "height"))
     ELSE IF Get(h, contentPart, "pt") = S("_pt_sentinel")
     THEN _createAttachmentFragment(st, title, caption, contentPart)
     ELSE LET d == createDMessageDataInlineText(st, NotSupportedText(Get(h, contentPart, "pt")),
                                                S("text/plain"))
          IN createDocAttachmentFragment(d.st, S("Error"), Str(<<"Content", "to", "Attachment">>),
               S("text/plain"), d.r, ref, docMeta)

specialContentPartToDocAttachmentFragment(st, title, caption, contentPart, ref, docMeta) ==
  LET h == st.heap
  IN IF isTextPart(h, contentPart)
     THEN LET d == createDMessageDataInlineText(st, Get(h, contentPart, "text"), S("text/plain"))
          IN createDocAttachmentFragment(d.st, title, caption, S("text/plain"), d.r, ref, docMeta)
     ELSE IF isImageRefPart(h, contentPart)
     THEN LET d == _duplicateDataReference(st, Get(h, contentPart, "dataRef"))
          IN createImageAttachmentFragment(d.st, title, caption, d.r, Get(h, contentPart, "altText"),
               Get(h, contentPart, "width"), Get(h, contentPart, "height"))
     ELSE LET d == createDMessageDataInlineText(st, NotSupportedText(Get(h, contentPart, "pt")),
                                                S("text/plain"))
          IN createDocAttachmentFragment(d.st, S("Error"), Str(<<"Content", "to", "Attachment">>),
               S("text/plain"), d.r, ref, docMeta)

(***************************************************************************)
(* Fragments that reach this module from its callers and from storage:     *)
(* values of type DMessageFragment written as object literals, with their  *)
(* optional keys absent.  No exported factory builds a tool_call, a        *)
(* tool_response or a sentinel, so these are the only source of them.      *)
(***************************************************************************)
LiteralKinds ==
  {"tool_call_function", "tool_call_function_bare", "tool_call_code", "tool_response_function",
   "tool_response_code", "ft_sentinel", "content_sentinel", "attachment_sentinel",
   "content_image_ref", "attachment_doc"}

LiteralFragment(st, ft, part) ==
  LET id == agiId(st)
  IN IF ft = "attachment"
     THEN Alloc(id.st, Obj([ft |-> S(ft), fId |-> id.r, title |-> S("notes.md"),
                            caption |-> S("stored"), created |-> Num(st.now), part |-> part]))
     ELSE Alloc(id.st, Obj([ft |-> S(ft), fId |-> id.r, part |-> part]))

LiteralPart(st, kind) ==
  CASE kind = "tool_call_function" ->
         LET props == Alloc(st, Obj([q |-> S("string")]))
             schema == Alloc(props.st, Obj([type |-> S("object"), properties |-> props.r]))
             c == Alloc(schema.st, Obj(("type" :> S("function_call")) @@ ("name" :> S("search"))
                    @@ ("args" :> S("{}")) @@ ("_description" :> S("Search"))
                    @@ ("_args_schema" :> schema.r)))
         IN Alloc(c.st, Obj([pt |-> S("tool_call"), id |-> S("call-1"), call |-> c.r]))
    [] kind = "tool_call_function_bare" ->
         LET c == Alloc(st, Obj([type |-> S("function_call"), name |-> S("ping"), args |-> Null]))
         IN Alloc(c.st, Obj([pt |-> S("tool_call"), id |-> S("call-2"), call |-> c.r]))
    [] kind = "tool_call_code" ->
         LET a == Alloc(st, Obj([code |-> S("print(1)"), language |-> S("python")]))
             c == Alloc(a.st, Obj([type |-> S("code_execution"), variant |-> S("gemini_auto_inline"),
                                   arguments |-> a.r]))
         IN Alloc(c.st, Obj([pt |-> S("tool_call"), id |-> S("call-3"), call |-> c.r]))
    [] kind = "tool_response_function" ->
         LET r == Alloc(st, Obj(("type" :> S("function_call")) @@ ("result" :> S("42"))
                    @@ ("_name" :> S("search"))))
         IN Alloc(r.st, Obj(("pt" :> S("tool_response")) @@ ("id" :> S("call-1"))
                    @@ ("response" :> r.r) @@ ("error" :> Bool(FALSE))
                    @@ ("_environment" :> S("server"))))
    [] kind = "tool_response_code" ->
         LET r == Alloc(st, Obj([type |-> S("code_execution"), result |-> S("1")]))
         IN Alloc(r.st, Obj([pt |-> S("tool_response"), id |-> S("call-3"), response |-> r.r,
                             error |-> S("timeout")]))
    [] kind = "content_image_ref" ->
         LET d == Alloc(st, Obj([reftype |-> S("url"), url |-> S("https://x/cat.png")]))
         IN Alloc(d.st, Obj([pt |-> S("image_ref"), dataRef |-> d.r]))
    [] kind = "attachment_doc" ->
         LET d == Alloc(st, Obj([idt |-> S("text"), text |-> S("# notes"),
                                 mimeType |-> S("text/markdown")]))
         IN Alloc(d.st, Obj([pt |-> S("doc"), type |-> S("text/markdown"), data |-> d.r,
                             ref |-> S("notes.md")]))
    [] OTHER -> Alloc(st, Obj([pt |-> S("_pt_sentinel")]))

Literal(st, kind) ==
  IF kind = "ft_sentinel"
  THEN LET id == agiId(st) IN Alloc(id.st, Obj([ft |-> S("_ft_sentinel"), fId |-> id.r]))
  ELSE LET p == LiteralPart(st, kind)
       IN LiteralFragment(p.st, IF kind \in {"attachment_sentinel", "attachment_doc"}
                                THEN "attachment" ELSE "content", p.r)

(***************************************************************************)
(* The state: the heap, the identifier generator, the clock, the fragments *)
(* the client holds (its message, in order) and the last call made: its    *)
(* name, its arguments, its result and the heap it was made in.            *)
(***************************************************************************)
VARIABLES heap, nextId, now, held, call

vars == <<heap, nextId, now, held, call>>

St == [heap |-> heap, nextId |-> nextId, now |-> now]

Init ==
  /\ heap = <<>>
  /\ nextId = 1
  /\ now = 0
  /\ held = <<>>
  /\ call = [op |-> "none", args |-> <<>>, res |-> Undefined, pre |-> <<>>, at |-> 0]

\* A call returns: x is its [st, r], pre the heap it was made in.  Every
\* call takes one tick of the clock.
Returns(op, args, pre, x) ==
  /\ heap' = x.st.heap
  /\ nextId' = x.st.nextId
  /\ now' = now + 1
  /\ call' = [op |-> op, args |-> args, res |-> x.r, pre |-> pre, at |-> now]

CreateErrorContentFragment ==
  /\ now < MaxOps
  /\ LET x == createErrorContentFragment(St, S("oops"))
     IN Returns("createErrorContentFragment", <<S("oops")>>, heap, x) /\ held' = Append(held, x.r)

CreateImageContentFragment ==
  /\ now < MaxOps
  /\ LET d == createDMessageDataRefDBlob(St, S("abc"), S("image/png"), Num(1024))
         args == <<d.r, S("a cat"), Num(64), Num(48)>>
         x == createImageContentFragment(d.st, args[1], args[2], args[3], args[4])
     IN Returns("createImageContentFragment", args, d.st.heap, x) /\ held' = Append(held, x.r)

CreatePlaceholderMetaFragment ==
  /\ now < MaxOps
  /\ LET x == createPlaceholderMetaFragment(St, S("..."))
     IN Returns("createPlaceholderMetaFragment", <<S("...")>>, heap, x)
        /\ held' = Append(held, x.r)

CreateTextContentFragment ==
  /\ now < MaxOps
  /\ LET x == createTextContentFragment(St, S("hello"))
     IN Returns("createTextContentFragment", <<S("hello")>>, heap, x) /\ held' = Append(held, x.r)

CreateDocAttachmentFragment ==
  /\ now < MaxOps
  /\ LET d == createDMessageDataInlineText(St, S("body"), Undefined)
         m == Alloc(d.st, Obj([srcFileName |-> S("a.txt")]))
         args == <<S("a.txt"), S("from disk"), S("text/plain"), d.r, S("a.txt"), m.r>>
         x == createDocAttachmentFragment(m.st, args[1], args[2], args[3], args[4], args[5], args[6])
     IN Returns("createDocAttachmentFragment", args, m.st.heap, x) /\ held' = Append(held, x.r)

CreateImageAttachmentFragment ==
  /\ now < MaxOps
  /\ LET d == Alloc(St, Obj([reftype |-> S("url"), url |-> S("https://x/dog.png")]))
         args == <<S("dog.png"), S("from clipboard"), d.r, Undefined, Undefined, Undefined>>
         x == createImageAttachmentFragment(d.st, args[1], args[2], args[3], args[4], args[5], args[6])
     IN Returns("createImageAttachmentFragment", args, d.st.heap, x) /\ held' = Append(held, x.r)

LoadFragment ==
  /\ now < MaxOps
  /\ \E kind \in LiteralKinds :
       LET x == Literal(St, kind)
       IN Returns("literal", <<S(kind)>>, heap, x) /\ held' = Append(held, x.r)

\* The client forks its message: it passes its fragments as an array and
\* goes on with the copies.
DuplicateDMessageFragments ==
  /\ now < MaxOps
  /\ LET a == Alloc(St, Arr(held))
         x == duplicateDMessageFragments(a.st, a.r)
     IN Returns("duplicateDMessageFragments", <<a.r>>, a.st.heap, x)
        /\ held' = x.st.heap[x.r.n].items

\* The client turns the part of a content fragment it holds into an
\* attachment, with or without a docMeta.
SpecialContentPartToDocAttachmentFragment ==
  /\ now < MaxOps
  /\ \E i \in 1..Len(held), withMeta \in BOOLEAN :
       /\ isContentFragment(heap, held[i])
       /\ LET m == IF withMeta THEN Alloc(St, Obj([codeLanguage |-> S("ts")]))
                   ELSE [st |-> St, r |-> Undefined]
              args == <<S("My title"), S("my caption"), Get(heap, held[i], "part"), S("ref-1"), m.r>>
              x == specialContentPartToDocAttachmentFragment(m.st, args[1], args[2], args[3],
                                                             args[4], args[5])
          IN Returns("specialContentPartToDocAttachmentFragment", args, m.st.heap, x)
             /\ held' = Append(held, x.r)

\* The client edits the text of a content fragment it holds.
SpecialShallowReplaceTextContentFragment ==
  /\ now < MaxOps
  /\ \E i \in 1..Len(held) :
       /\ isContentFragment(heap, held[i])
       /\ LET args == <<held[i], S("edited")>>
              x == specialShallowReplaceTextContentFragment(St, args[1], args[2])
          IN Returns("specialShallowReplaceTextContentFragment", args, heap, x)
             /\ held' = [held EXCEPT ![i] = x.r]

Next ==
  \/ CreateErrorContentFragment
  \/ CreateImageContentFragment
  \/ CreatePlaceholderMetaFragment
  \/ CreateTextContentFragment
  \/ CreateDocAttachmentFragment
  \/ CreateImageAttachmentFragment
  \/ LoadFragment
  \/ DuplicateDMessageFragments
  \/ SpecialContentPartToDocAttachmentFragment
  \/ SpecialShallowReplaceTextContentFragment

Spec == Init /\ [][Next]_vars

(***************************************************************************)
(* What the properties read.                                               *)
(***************************************************************************)
IsDup == call.op = "duplicateDMessageFragments"

IsConversion == call.op = "specialContentPartToDocAttachmentFragment"

\* The fragments passed to the last duplication, and the fragments returned.
In == call.pre[call.args[1].n].items

Out == heap[call.res.n].items

\* The pt tag of a fragment's part; undefined for a fragment without part.
PartTag(h, f) == IF HasKey(h, f, "part") THEN Get(h, Get(h, f, "part"), "pt") ELSE Undefined

\* The addresses reachable from a value.
RECURSIVE Reach(_, _)
Reach(h, v) ==
  IF v.t # "object" THEN {}
  ELSE {v.n} \cup UNION {Reach(h, h[v.n].fields[k]) : k \in DOMAIN h[v.n].fields}
             \cup UNION {Reach(h, h[v.n].items[i]) : i \in DOMAIN h[v.n].items}

\* The deep value of an object: every path of keys from it, with the
\* primitive value at its end (an object on the way is marked as one).  A
\* key holding undefined is a path; an absent key is none.
RECURSIVE Deep(_, _)
Deep(h, v) ==
  LET f == h[v.n].fields
      Under(k) == IF f[k].t = "object"
                  THEN {<<<<k>>, Ref(0)>>} \cup {<<<<k>> \o e[1], e[2]>> : e \in Deep(h, f[k])}
                  ELSE {<<<<k>>, f[k]>>}
  IN UNION {Under(k) : k \in DOMAIN f}

\* Without the fragment's identity: its fId and its created.
StripIdentity(d) == {e \in d : e[1] \notin {<<"fId">>, <<"created">>}}

\* Without the keys that hold undefined.
DropUndefined(d) == {e \in d : e[2] # Undefined}

\* Whether the words sub occur in words, one after the other.
Contains(words, sub) ==
  \E i \in 0..(Len(words) - Len(sub)) : SubSeq(words, i + 1, i + Len(sub)) = sub

\* The fIds held by the fragments of a heap.
FIds(h) == {h[a].fields["fId"] : a \in {b \in DOMAIN h : "fId" \in DOMAIN h[b].fields}}

(***************************************************************************)
(* C1.  Identity freshness: every fragment returned by a duplication       *)
(* carries an fId that differs from the fId of its source fragment, that   *)
(* no fragment held it before the call, and that no other returned         *)
(* fragment holds.                                                         *)
(***************************************************************************)
C1_IdentityFreshness ==
  IsDup =>
    \A i \in DOMAIN Out :
      /\ i \in DOMAIN In => Get(heap, Out[i], "fId") # Get(call.pre, In[i], "fId")
      /\ Get(heap, Out[i], "fId") \notin FIds(call.pre)
      /\ Get(heap, Out[i], "fId").t = "string"
      /\ \A j \in DOMAIN Out : j # i => Get(heap, Out[j], "fId") # Get(heap, Out[i], "fId")

\* A duplication of two fragments of different kinds.
C1_Witness ==
  /\ IsDup
  /\ Len(In) = 2
  /\ Get(call.pre, In[1], "ft") # Get(call.pre, In[2], "ft")

(***************************************************************************)
(* C2.  No aliasing: nothing reachable from the array a duplication        *)
(* returns is an object that existed before the call, so no write through  *)
(* the copy can change anything reachable from the original.               *)
(***************************************************************************)
C2_NoAliasing ==
  IsDup => Reach(heap, call.res) \cap DOMAIN call.pre = {}

C4_LengthAndOrder ==
  IsDup =>
    /\ Len(Out) = Len(In)
    /\ \A i \in DOMAIN In :
         /\ Get(heap, Out[i], "ft") = Get(call.pre, In[i], "ft")
         /\ PartTag(heap, Out[i]) = PartTag(call.pre, In[i])

\* A duplication of two fragments whose part tags differ, and one of none.
C4_Witness ==
  /\ IsDup
  /\ Len(In) = 2
  /\ PartTag(call.pre, In[1]) # PartTag(call.pre, In[2])

(***************************************************************************)
(* C5.  Arguments are never mutated: after any call every object that      *)
(* existed when the call was made (the input array, its fragments, their   *)
(* parts and data references) is as it was, and the array a duplication    *)
(* returns is a new array, not the array it was given.                     *)
(***************************************************************************)
C5_ArgumentsUnchanged ==
  /\ Len(heap) >= Len(call.pre)
  /\ \A a \in DOMAIN call.pre : heap[a] = call.pre[a]
  /\ IsDup => /\ call.res # call.args[1]
              /\ call.res.n \notin DOMAIN call.pre
              /\ heap[call.res.n].kind = "array"

\* A duplication of two fragments, one of them with a part that holds a
\* data reference.
C5_Witness ==
  /\ IsDup
  /\ Len(In) = 2
  /\ \E i \in DOMAIN In : PartTag(call.pre, In[i]) = S("image_ref")

(***************************************************************************)
(* C6.  Attachment conversion totality: converting any content part        *)
(* returns an attachment fragment; for a part that is neither text nor     *)
(* image_ref, its part is a text/plain doc whose inline text contains the  *)
(* part's pt tag and the words "not supported".                            *)
(***************************************************************************)
C6_ConversionTotal ==
  IsConversion =>
    LET pt == Get(call.pre, call.args[3], "pt")
        part == Get(heap, call.res, "part")
    IN /\ call.res.t = "object"
       /\ Get(heap, call.res, "ft") = S("attachment")
       /\ part.t = "object"
       /\ pt \notin {S("text"), S("image_ref")} =>
            /\ Get(heap, part, "pt") = S("doc")
            /\ Get(heap, part, "type") = S("text/plain")
            /\ Get(heap, Get(heap, part, "data"), "idt") = S("text")
            /\ Contains(Get(heap, Get(heap, part, "data"), "text").s, pt.s)
            /\ Contains(Get(heap, Get(heap, part, "data"), "text").s, <<"not", "supported">>)

\* A tool_call part is converted.
C6_Witness ==
  /\ IsConversion
  /\ Get(call.pre, call.args[3], "pt") = S("tool_call")

(***************************************************************************)
(* C7.  Fragment/part legality: in every state, whatever calls were made,  *)
(* the part of a content fragment is not a doc part, and the part of an    *)
(* attachment fragment is a doc, an image_ref or a sentinel part.          *)
(***************************************************************************)
C7_Legality ==
  \A a \in DOMAIN heap :
    /\ Get(heap, Ref(a), "ft") = S("content") => PartTag(heap, Ref(a)) # S("doc")
    /\ Get(heap, Ref(a), "ft") = S("attachment") =>
         PartTag(heap, Ref(a)) \in {S("doc"), S("image_ref"), S("_pt_sentinel")}

\* An attachment with a doc part and a content fragment are duplicated.
C7_Witness ==
  /\ IsDup
  /\ \E i \in DOMAIN Out : isAttachmentFragment(heap, Out[i]) /\ isDocPart(heap, Get(heap, Out[i], "part"))
  /\ \E i \in DOMAIN Out : isContentFragment(heap, Out[i])

(***************************************************************************)
(* C8.  Conversion of supported kinds: a text part becomes an attachment   *)
(* with the caller's title and caption whose part is a text/plain doc with *)
(* the source text inline and the caller's ref and docMeta; an image_ref   *)
(* part becomes an attachment whose part is an image_ref with the same     *)
(* altText, width and height, and a data reference of the same value that  *)
(* is another object than the source's.                                    *)
(***************************************************************************)
C8_ConversionSupported ==
  IsConversion =>
    LET src == call.args[3]
        pt == Get(call.pre, src, "pt")
        part == Get(heap, call.res, "part")
    IN /\ pt = S("text") =>
            /\ Get(heap, call.res, "ft") = S("attachment")
            /\ Get(heap, call.res, "title") = call.args[1]
            /\ Get(heap, call.res, "caption") = call.args[2]
            /\ Get(heap, part, "pt") = S("doc")
            /\ Get(heap, part, "type") = S("text/plain")
            /\ Get(heap, Get(heap, part, "data"), "idt") = S("text")
            /\ Get(heap, Get(heap, part, "data"), "text") = Get(call.pre, src, "text")
            /\ Get(heap, part, "ref") = call.args[4]
            /\ Get(heap, part, "meta") = call.args[5]
       /\ pt = S("image_ref") =>
            /\ Get(heap, call.res, "ft") = S("attachment")
            /\ Get(heap, part, "pt") = S("image_ref")
            /\ Get(heap, part, "altText") = Get(call.pre, src, "altText")
            /\ Get(heap, part, "width") = Get(call.pre, src, "width")
            /\ Get(heap, part, "height") = Get(call.pre, src, "height")
            /\ Get(heap, part, "dataRef").t = "object"
            /\ Get(heap, part, "dataRef") # Get(call.pre, src, "dataRef")
            /\ Get(heap, part, "dataRef").n \notin DOMAIN call.pre
            /\ Deep(heap, Get(heap, part, "dataRef")) = Deep(call.pre, Get(call.pre, src, "dataRef"))

\* An image_ref part with a dblob reference, an altText and a size is
\* converted.
C8_Witness ==
  /\ IsConversion
  /\ Get(call.pre, call.args[3], "pt") = S("image_ref")
  /\ Get(call.pre, Get(call.pre, call.args[3], "dataRef"), "reftype") = S("dblob")
  /\ Get(call.pre, call.args[3], "altText").t = "string"

(***************************************************************************)
(* C9.  Sentinels are never emitted by producers of real content: no       *)
(* factory and no conversion returns a sentinel fragment or a fragment     *)
(* with a sentinel part, and a duplication returns one at an index only    *)
(* where it was given one.                                                 *)
(***************************************************************************)
FactoryOps ==
  {"createErrorContentFragment", "createImageContentFragment", "createPlaceholderMetaFragment",
   "createTextContentFragment", "createDocAttachmentFragment", "createImageAttachmentFragment",
   "specialShallowReplaceTextContentFragment", "specialContentPartToDocAttachmentFragment"}

C9_NoSentinelEmitted ==
  /\ call.op \in FactoryOps =>
       /\ Get(heap, call.res, "ft") \in {S("content"), S("attachment")}
       /\ PartTag(heap, call.res) \notin {S("_pt_sentinel"), Undefined}
  /\ IsDup =>
       \A i \in DOMAIN Out :
         /\ Get(heap, Out[i], "ft") = S("_ft_sentinel") =>
              i \in DOMAIN In /\ Get(call.pre, In[i], "ft") = S("_ft_sentinel")
         /\ PartTag(heap, Out[i]) = S("_pt_sentinel") =>
              i \in DOMAIN In /\ PartTag(call.pre, In[i]) = S("_pt_sentinel")

\* A sentinel part is converted.
C9_Witness ==
  /\ IsConversion
  /\ Get(call.pre, call.args[3], "pt") = S("_pt_sentinel")

(***************************************************************************)
(* C10.  The duplicate of an attachment fragment has the title and the     *)
(* caption of its source and, as created, the time of the duplication;     *)
(* the duplicate of a content fragment has no title, caption or created.   *)
(***************************************************************************)
C10_AttachmentDuplicate ==
  IsDup =>
    \A i \in DOMAIN In :
      /\ isAttachmentFragment(call.pre, In[i]) =>
           /\ i \in DOMAIN Out
           /\ Get(heap, Out[i], "title") = Get(call.pre, In[i], "title")
           /\ Get(heap, Out[i], "caption") = Get(call.pre, In[i], "caption")
           /\ Get(heap, Out[i], "created") = Num(call.at)
      /\ isContentFragment(call.pre, In[i]) =>
           /\ i \in DOMAIN Out
           /\ DOMAIN heap[Out[i].n].fields \cap {"title", "caption", "created"} = {}

\* An attachment created before the time of the duplication is duplicated,
\* together with a content fragment.
C10_Witness ==
  /\ IsDup
  /\ \E i \in DOMAIN In :
       /\ isAttachmentFragment(call.pre, In[i])
       /\ Get(call.pre, In[i], "created") # Num(call.at)
  /\ \E i \in DOMAIN In : isContentFragment(call.pre, In[i])

====
